---- MODULE Spec2Model ----
(***************************************************************************)
(* Ride-booking backend (src/main.py, src/schemas.py): the rider, driver   *)
(* and ride collections, ride creation (request_ride) and the ride         *)
(* transition engine (update_ride) with its per-transition authorization.  *)
(*                                                                         *)
(* Each HTTP handler is one atomic action.  `resp` is the response to the  *)
(* request just handled (with the handler's name) and `prev` the ride      *)
(* collection as it was when that request arrived (a history variable used *)
(* to state what a request changed).  `now` is the clock read by           *)
(* datetime.utcnow(); every write is stamped with a later instant than     *)
(* every stored timestamp.                                                 *)
(* `inflight` holds the update_ride requests that have read and authorized *)
(* but not yet written (used only where a request is two steps), and       *)
(* `probe` the arguments and the result of the last call of a pure         *)
(* function or query (estimate_fare, nearby_drivers).                      *)
(* The "db is None" branches (status 500) concern an unavailable store and *)
(* are not modelled: the store is available.                               *)
(***************************************************************************)
EXTENDS Integers, Sequences, FiniteSets, TLC

VARIABLES riders, drivers, rides, now, resp, prev, inflight, probe

vars == <<riders, drivers, rides, now, resp, prev, inflight, probe>>

----------------------------------------------------------------------------
(* Bounds of the model *)

\* The number of rides stored, and the number of writes to the ride
\* collection (the instants the clock takes).
MaxRides == 2
MaxClock == 2

\* The longest distance priced, in tenths of a km.
MaxDistance == 100

\* By how many the drivers that match a nearby query exceed its limit.
MaxSurplus == 1

----------------------------------------------------------------------------
(* Values *)

\* Python's None, for the optional string fields and the absent header.
NONE == "<None>"

\* Store-native identifiers, stringified, in the order the store issues
\* them: the riders and drivers that register, and the rides.
RiderIdSeq == <<"r1">>
DriverIdSeq == <<"d1", "d2">>
RideIdSeq == <<"a1", "a2", "a3", "a4">>

RiderIds == {RiderIdSeq[i] : i \in 1..Len(RiderIdSeq)}
DriverIds == {DriverIdSeq[i] : i \in 1..Len(DriverIdSeq)}
RideIds == {RideIdSeq[i] : i \in 1..MaxRides}

\* A string that bson.ObjectId() refuses, and a well-formed identifier that
\* the store never issues.
BadId == "zz"
GhostId == "f0"

\* secrets.token_hex(16): a fresh random token, one per registration.
RiderTokenSeq == <<"tr1">>
DriverTokenSeq == <<"td1", "td2">>

\* Credentials that clients choose themselves at registration.
ChosenKeys == {"k1"}

Tokens == {RiderTokenSeq[i] : i \in 1..Len(RiderTokenSeq)}
          \cup {DriverTokenSeq[i] : i \in 1..Len(DriverTokenSeq)}

\* Values of the api_key field of a registration payload.
ApiKeyInputs == {NONE, ""} \cup ChosenKeys

\* Values of the X-Api-Key header.
HeaderInputs == {NONE} \cup ChosenKeys \cup Tokens

\* Ride statuses named by the schema, and the status strings clients send.
Statuses == {"requested", "assigned", "ongoing", "completed", "cancelled"}
StatusInputs == Statuses \cup {"bogus"}

\* HTTP outcomes.
OK == 200
InvalidId == 400
Unauthorized == 401
NotFound == 404

----------------------------------------------------------------------------
(* Input domains of the handlers *)

\* Optional numbers are sequences: << >> is None, <<x>> is the number x.
\* Distances are in tenths of a km, durations in tenths of a minute, fares in
\* cents and surge multipliers in tenths.
NoNumber == << >>
HourInputs == {8}
CreateStatusInputs == {"requested", "completed"}
CreateDriverInputs == {NONE, DriverIdSeq[1]}
PointInputs == {[lat |-> 12, lng |-> 77]}
DistanceInputs == {<<100>>}
DurationInputs == {NoNumber}
FareInputs == {NoNumber}

\* Bodies accepted by the Ride schema (rider_id is a required string; the
\* other fields are optional, status defaults to "requested").
RidePayloads ==
    [rider_id : RiderIds \cup {BadId, GhostId},
     driver_id : CreateDriverInputs,
     pickup : PointInputs,
     dropoff : PointInputs,
     distance_km : DistanceInputs,
     duration_min : DurationInputs,
     fare_estimate : FareInputs,
     surge_multiplier : {NoNumber},
     status : CreateStatusInputs]

\* Bodies accepted by the RideUpdate schema.
RideUpdates ==
    [status : {NONE} \cup StatusInputs,
     driver_id : {NONE, "", BadId} \cup DriverIds]

\* Ride identifiers in the path of PATCH /rides/{ride_id}.
RideIdInputs == RideIds \cup {BadId}

\* An optional GeoPoint is a sequence too: << >> is None, <<[lat, lng]>> a
\* point.  Coordinates are in whole degrees.
NoLocation == << >>

\* Bodies accepted by the Driver schema at registration, here without a
\* location and available (the defaults of the schema).
DriverPayloads ==
    [api_key : ApiKeyInputs, location : {NoLocation}, is_available : {TRUE}]

\* Bodies of driver registrations that carry a location: GeoPoint admits
\* latitudes in [-90, 90] and longitudes in [-180, 180] only.
GeoPoints == [lat : {0 - 90, 12}, lng : {77, 180}]
LocatedDriverPayloads ==
    [api_key : {NONE} \cup ChosenKeys,
     location : {NoLocation} \cup {<<g>> : g \in GeoPoints},
     is_available : BOOLEAN]

\* Bodies accepted by the LocationUpdate schema: two numbers.
LocationUpdates == [lat : {0 - 90, 12, 91}, lng : {0 - 181, 77, 180}]

\* No update_ride request between its read and its write.
Slots == {1, 2}
Idle ==
    [pc |-> "idle", ride_id |-> "", payload |-> [status |-> NONE, driver_id |-> NONE],
     key |-> NONE, seen |-> NONE, stale |-> FALSE]
NoRequests == [s \in Slots |-> Idle]

\* No pure function called yet.
NoProbe == [fn |-> "none"]

\* Bodies accepted by the FareQuery schema: a distance (negative ones
\* included), an optional duration and an optional hour of the day.
Hours == 0..23
FareQueries ==
    [distance_km : (0 - 20)..MaxDistance,
     duration_min : {NoNumber, <<0 - 5>>, <<0>>, <<7>>, <<200>>},
     hour : {NoNumber} \cup {<<h>> : h \in Hours}]

----------------------------------------------------------------------------
(* Helpers *)

\* Python truthiness of an optional string: neither None nor "".
Truthy(v) == v # NONE /\ v # ""

Max(a, b) == IF a >= b THEN a ELSE b

\* Strings bson.ObjectId() parses.
WellFormedIds == RiderIds \cup DriverIds \cup {GhostId}
                 \cup {RideIdSeq[i] : i \in 1..Len(RideIdSeq)}

\* get_doc_by_id: 400 for a malformed id, 404 for an id with no document.
get_doc_by_id(collection, _id) ==
    IF _id \notin WellFormedIds THEN InvalidId
    ELSE IF _id \notin DOMAIN collection THEN NotFound
    ELSE OK

\* A late-night surge that starts an hour early.
surge_multiplier_LateFrom21(h) ==
    IF (7 <= h /\ h <= 9) \/ (17 <= h /\ h <= 20) THEN 15
    ELSE IF 21 <= h \/ h < 6 THEN 12
    ELSE 10

\* surge_multiplier, in tenths.
surge_multiplier(h) ==
    IF (7 <= h /\ h <= 9) \/ (17 <= h /\ h <= 20) THEN 15
    ELSE IF 22 <= h \/ h < 6 THEN 12
    ELSE 10

\* estimate_fare: <<fare in cents, multiplier in tenths>>.  The sum in cents
\* is even, so fare * mult is never half a cent away from a cent and round()
\* is rounding to the nearest cent.
estimate_fare(distance_km, duration_min, h) ==
    LET mult == surge_multiplier(h)
        base == 200 + 12 * Max(distance_km, 0)
        fare == IF duration_min # NoNumber
                THEN base + 2 * Max(duration_min[1], 0)
                ELSE base
    IN  <<(fare * mult + 5) \div 10, mult>>

\* create_document: insert `data` under a new identifier, stamped with the
\* time of the insert.
create_document(collection, _id, data, t) ==
    [x \in DOMAIN collection \cup {_id} |->
        IF x = _id THEN data @@ [updated_at |-> t] ELSE collection[x]]

\* The identifier the store issues to the next document of a collection.
NextId(idSeq, collection) == idSeq[Cardinality(DOMAIN collection) + 1]

----------------------------------------------------------------------------
(* Registration *)

\* The empty collection.
Empty == [x \in {} |-> NONE]

\* A response, with the same fields for every handler: the handler, the HTTP
\* status, the "updated" flag and the "id" of the body ("" when it has none).
Response(op, code, updated, id) ==
    [op |-> op, code |-> code, updated |-> updated, id |-> id]

\* create_rider: the api_key is the supplied one, or a fresh token when the
\* supplied one is None or empty.
create_rider(api_key_in) ==
    /\ Cardinality(DOMAIN riders) < Len(RiderIdSeq)
    /\ LET new_id == NextId(RiderIdSeq, riders)
           token == RiderTokenSeq[Cardinality(DOMAIN riders) + 1]
           api_key == IF Truthy(api_key_in) THEN api_key_in ELSE token
       IN  /\ riders' = [x \in DOMAIN riders \cup {new_id} |->
                            IF x = new_id THEN [api_key |-> api_key] ELSE riders[x]]
           /\ resp' = Response("create_rider", OK, FALSE, new_id)
    /\ prev' = rides
    /\ UNCHANGED <<drivers, rides, now, inflight, probe>>

\* create_driver: as create_rider, on the driver collection.  The document
\* keeps the payload's location (None or a GeoPoint) and is_available; the
\* other fields of Driver (name, phone, vehicle, rating) are read by nothing.
create_driver(driver) ==
    /\ Cardinality(DOMAIN drivers) < Len(DriverIdSeq)
    /\ LET new_id == NextId(DriverIdSeq, drivers)
           token == DriverTokenSeq[Cardinality(DOMAIN drivers) + 1]
           api_key == IF Truthy(driver.api_key) THEN driver.api_key ELSE token
       IN  /\ drivers' = [x \in DOMAIN drivers \cup {new_id} |->
                            IF x = new_id THEN [driver EXCEPT !.api_key = api_key]
                            ELSE drivers[x]]
           /\ resp' = Response("create_driver", OK, FALSE, new_id)
    /\ prev' = rides
    /\ UNCHANGED <<riders, rides, now, inflight, probe>>

----------------------------------------------------------------------------
(* Ride creation *)

\* request_ride without the comparison of the header with the stored api_key.
RequestCode_NoKeyCheck(ride, x_api_key) ==
    get_doc_by_id(riders, ride.rider_id)

\* The credential check of request_ride: the rider named by the payload must
\* exist and its stored api_key must equal the X-Api-Key header.
RequestCode(ride, x_api_key) ==
    IF get_doc_by_id(riders, ride.rider_id) # OK
    THEN get_doc_by_id(riders, ride.rider_id)
    ELSE IF riders[ride.rider_id].api_key # x_api_key THEN Unauthorized
    ELSE OK

\* The ride as request_ride hands it to create_document: the payload, with
\* fare_estimate and surge_multiplier filled in when no fare was supplied
\* and a distance was.
PricedRide(ride, h) ==
    IF ride.fare_estimate = NoNumber /\ ride.distance_km # NoNumber
    THEN LET est == estimate_fare(ride.distance_km[1], ride.duration_min, h)
         IN  [ride EXCEPT !.fare_estimate = <<est[1]>>,
                          !.surge_multiplier = <<est[2]>>]
    ELSE ride

\* The outcome of request_ride for a request arriving at time t in hour h
\* (the hour of datetime.utcnow() inside estimate_fare): the status, the id
\* returned and the ride collection afterwards.
RequestOutcome(ride, x_api_key, h, t) ==
    IF RequestCode(ride, x_api_key) # OK
    THEN [code |-> RequestCode(ride, x_api_key), id |-> "", rides |-> rides]
    ELSE LET new_id == NextId(RideIdSeq, rides)
         IN  [code |-> OK, id |-> new_id,
              rides |-> create_document(rides, new_id, PricedRide(ride, h), t)]

\* POST /rides, given the outcome of the request: the store takes the
\* outcome's ride collection and the client gets the response.
request_ride(out) ==
    /\ prev' = rides
    /\ resp' = Response("request_ride", out.code, FALSE, out.id)
    /\ IF out.code = OK
       THEN /\ Cardinality(DOMAIN rides) < MaxRides
            /\ now < MaxClock
            /\ now' = now + 1
       ELSE UNCHANGED now
    /\ rides' = out.rides
    /\ UNCHANGED <<riders, drivers, inflight, probe>>

----------------------------------------------------------------------------
(* Ride update *)

\* payload.dict() taken whole, its None fields included.
UpdateDict_KeepsNone(payload) == {"status", "driver_id"}

\* update = {k: v for k, v in payload.dict().items() if v is not None}
UpdateDict(payload) == {k \in {"status", "driver_id"} : payload[k] # NONE}

\* An authorization that, on a ride without a driver, also accepts the key of
\* any registered driver.
AuthCode_DriversOnUnassigned(ride_doc, payload, x_api_key) ==
    IF Truthy(payload.driver_id)
    THEN IF get_doc_by_id(drivers, payload.driver_id) # OK
         THEN get_doc_by_id(drivers, payload.driver_id)
         ELSE IF drivers[payload.driver_id].api_key # x_api_key THEN Unauthorized
         ELSE OK
    ELSE IF Truthy(ride_doc.driver_id)
    THEN IF get_doc_by_id(drivers, ride_doc.driver_id) # OK
         THEN get_doc_by_id(drivers, ride_doc.driver_id)
         ELSE IF payload.status = "cancelled"
         THEN IF get_doc_by_id(riders, ride_doc.rider_id) # OK
              THEN get_doc_by_id(riders, ride_doc.rider_id)
              ELSE IF /\ riders[ride_doc.rider_id].api_key # x_api_key
                      /\ drivers[ride_doc.driver_id].api_key # x_api_key
              THEN Unauthorized
              ELSE OK
         ELSE IF drivers[ride_doc.driver_id].api_key # x_api_key THEN Unauthorized
         ELSE OK
    ELSE IF get_doc_by_id(riders, ride_doc.rider_id) # OK
         THEN get_doc_by_id(riders, ride_doc.rider_id)
         ELSE IF /\ riders[ride_doc.rider_id].api_key # x_api_key
                 /\ \A d \in DOMAIN drivers : drivers[d].api_key # x_api_key
         THEN Unauthorized
         ELSE OK

\* An assignment checked against the ride's rider's key, not the driver's.
AuthCode_AssignByRiderKey(ride_doc, payload, x_api_key) ==
    IF get_doc_by_id(riders, ride_doc.rider_id) # OK
    THEN get_doc_by_id(riders, ride_doc.rider_id)
    ELSE IF riders[ride_doc.rider_id].api_key # x_api_key THEN Unauthorized
    ELSE OK

\* The authorization decision of update_ride for a ride that was found:
\* the status of the first failing lookup or credential comparison, or 200.
AuthCode(ride_doc, payload, x_api_key) ==
    IF Truthy(payload.driver_id)
    THEN \* assigning a driver requires that driver's key
         IF get_doc_by_id(drivers, payload.driver_id) # OK
         THEN get_doc_by_id(drivers, payload.driver_id)
         ELSE IF drivers[payload.driver_id].api_key # x_api_key THEN Unauthorized
         ELSE OK
    ELSE IF Truthy(ride_doc.driver_id)
    THEN IF get_doc_by_id(drivers, ride_doc.driver_id) # OK
         THEN get_doc_by_id(drivers, ride_doc.driver_id)
         ELSE IF payload.status = "cancelled"
         THEN \* the rider may cancel with the rider key
              IF get_doc_by_id(riders, ride_doc.rider_id) # OK
              THEN get_doc_by_id(riders, ride_doc.rider_id)
              ELSE IF /\ riders[ride_doc.rider_id].api_key # x_api_key
                      /\ drivers[ride_doc.driver_id].api_key # x_api_key
              THEN Unauthorized
              ELSE OK
         ELSE IF drivers[ride_doc.driver_id].api_key # x_api_key THEN Unauthorized
         ELSE OK
    ELSE \* no driver yet: the rider may update or cancel
         IF get_doc_by_id(riders, ride_doc.rider_id) # OK
         THEN get_doc_by_id(riders, ride_doc.rider_id)
         ELSE IF riders[ride_doc.rider_id].api_key # x_api_key THEN Unauthorized
         ELSE OK

\* A $set that also clears the fare estimate.
SetFields_DropsFare(ride_doc, payload, t) ==
    [ride_doc EXCEPT
        !.driver_id = IF "driver_id" \in UpdateDict(payload)
                      THEN payload.driver_id ELSE @,
        !.status = IF "status" \in UpdateDict(payload) THEN payload.status
                   ELSE IF Truthy(payload.driver_id) THEN "assigned"
                   ELSE @,
        !.fare_estimate = NoNumber,
        !.updated_at = t]

\* The document after {"$set": update}: the fields of the payload that are not
\* None, status defaulting to "assigned" on an assignment, and updated_at.
SetFields(ride_doc, payload, t) ==
    [ride_doc EXCEPT
        !.driver_id = IF "driver_id" \in UpdateDict(payload)
                      THEN payload.driver_id ELSE @,
        !.status = IF "status" \in UpdateDict(payload) THEN payload.status
                   ELSE IF Truthy(payload.driver_id) THEN "assigned"
                   ELSE @,
        !.updated_at = t]

\* update_ride stamping updated_at before it authorizes the request.
UpdateOutcome_StampsFirst(ride_id, payload, x_api_key, t) ==
    IF UpdateDict(payload) = {}
    THEN [code |-> OK, updated |-> FALSE, rides |-> rides]
    ELSE IF get_doc_by_id(rides, ride_id) # OK
    THEN [code |-> get_doc_by_id(rides, ride_id), updated |-> FALSE, rides |-> rides]
    ELSE LET auth == AuthCode(rides[ride_id], payload, x_api_key)
             doc == SetFields(rides[ride_id], payload, t)
         IN  IF auth # OK
             THEN [code |-> auth, updated |-> FALSE,
                   rides |-> [rides EXCEPT ![ride_id].updated_at = t]]
             ELSE [code |-> OK, updated |-> (doc # rides[ride_id]),
                   rides |-> [rides EXCEPT ![ride_id] = doc]]

\* The outcome of update_ride for a request arriving at time t: the status,
\* the ride collection afterwards, and modified_count > 0.  The ride id has
\* been parsed by get_doc_by_id before update_one runs, so the final
\* "Invalid ride id" handler is only reached when the store itself fails.
UpdateOutcome(ride_id, payload, x_api_key, t) ==
    IF UpdateDict(payload) = {}
    THEN [code |-> OK, updated |-> FALSE, rides |-> rides]
    ELSE IF get_doc_by_id(rides, ride_id) # OK
    THEN [code |-> get_doc_by_id(rides, ride_id), updated |-> FALSE, rides |-> rides]
    ELSE LET auth == AuthCode(rides[ride_id], payload, x_api_key)
             doc == SetFields(rides[ride_id], payload, t)
         IN  IF auth # OK
             THEN [code |-> auth, updated |-> FALSE, rides |-> rides]
             ELSE [code |-> OK, updated |-> (doc # rides[ride_id]),
                   rides |-> [rides EXCEPT ![ride_id] = doc]]

\* PATCH /rides/{ride_id}, given the outcome of the request.
update_ride(out) ==
    /\ prev' = rides
    /\ resp' = Response("update_ride", out.code, out.updated, "")
    /\ rides' = out.rides
    /\ IF out.rides # rides
       THEN now < MaxClock /\ now' = now + 1
       ELSE UNCHANGED now
    /\ UNCHANGED <<riders, drivers, inflight, probe>>

----------------------------------------------------------------------------
(* Specification *)

Init ==
    /\ riders = Empty
    /\ drivers = Empty
    /\ rides = Empty
    /\ now = 0
    /\ resp = Response("none", OK, FALSE, "")
    /\ prev = Empty
    /\ inflight = NoRequests
    /\ probe = NoProbe

CreateRider == \E k \in ApiKeyInputs : create_rider(k)

CreateDriver == \E driver \in DriverPayloads : create_driver(driver)

\* Any request to POST /rides: every body, header and hour of the clock.  The
\* requests are grouped by their outcome, which is all a step depends on.
RequestRide ==
    \E out \in {RequestOutcome(ride, k, h, now + 1) :
                    ride \in RidePayloads, k \in HeaderInputs, h \in HourInputs} :
        request_ride(out)

\* Any request to PATCH /rides/{ride_id}: every id, body and header.
UpdateRide ==
    \E out \in {UpdateOutcome(ride_id, payload, k, now + 1) :
                    ride_id \in RideIdInputs, payload \in RideUpdates,
                    k \in HeaderInputs} :
        update_ride(out)

Next == CreateRider \/ CreateDriver \/ RequestRide \/ UpdateRide

Spec == Init /\ [][Next]_vars

----------------------------------------------------------------------------
(* update_ride as the two steps it is: the read of the ride with the       *)
(* authorization (get_doc_by_id and the credential checks, main.py:322-345)*)
(* and, later, the write (update_one, main.py:347-350).  Requests of other *)
(* clients run between the two.  Each slot carries one request.            *)

\* A filter that also requires the driver seen by the read.
WriteFilter_SameDriver(req) ==
    /\ req.ride_id \in DOMAIN rides
    /\ rides[req.ride_id].driver_id = req.seen

\* The filter of update_one, {"_id": ObjectId(ride_id)}: the ride's identity
\* and nothing of what the read saw.
WriteFilter(req) == req.ride_id \in DOMAIN rides

\* The first step of update_ride: the no-op return, the lookup and the
\* authorization against the ride as it is now.  A refused request answers at
\* once; an authorized one is left waiting for its write.
update_ride_read(s, ride_id, payload, x_api_key) ==
    /\ inflight[s].pc = "idle"
    /\ prev' = rides
    /\ LET code == IF UpdateDict(payload) = {} THEN OK
                   ELSE IF get_doc_by_id(rides, ride_id) # OK
                   THEN get_doc_by_id(rides, ride_id)
                   ELSE AuthCode(rides[ride_id], payload, x_api_key)
       IN  IF UpdateDict(payload) = {} \/ code # OK
           THEN /\ resp' = Response("update_ride", code, FALSE, "")
                /\ UNCHANGED inflight
           ELSE /\ inflight' = [inflight EXCEPT ![s] =
                       [pc |-> "write", ride_id |-> ride_id, payload |-> payload,
                        key |-> x_api_key, seen |-> rides[ride_id].driver_id,
                        stale |-> FALSE]]
                /\ UNCHANGED resp
    /\ UNCHANGED <<riders, drivers, rides, now, probe>>

\* The second step: update_one on the ride as it is now.  `stale` records
\* that the requester would be refused were the ride read again at this
\* instant.
update_ride_write(s) ==
    /\ inflight[s].pc = "write"
    /\ LET req == inflight[s]
           doc == SetFields(rides[req.ride_id], req.payload, now + 1)
       IN  /\ prev' = rides
           /\ IF WriteFilter(req)
              THEN /\ rides' = [rides EXCEPT ![req.ride_id] = doc]
                   /\ now' = now + 1
                   /\ resp' = Response("update_ride", OK, TRUE, "")
                   /\ inflight' = [inflight EXCEPT ![s].pc = "done",
                          ![s].stale = (AuthCode(rides[req.ride_id], req.payload,
                                                 req.key) # OK)]
              ELSE /\ resp' = Response("update_ride", OK, FALSE, "")
                   /\ inflight' = [inflight EXCEPT ![s].pc = "done"]
                   /\ UNCHANGED <<rides, now>>
    /\ UNCHANGED <<riders, drivers, probe>>

\* The interleavings are followed on one ride.
RaceRequestRide == DOMAIN rides = {} /\ RequestRide

\* The bodies of the interleaved requests: status changes and assignments.
RaceUpdates == [status : {NONE, "ongoing", "cancelled"}, driver_id : {NONE} \cup DriverIds]

ReadRide ==
    \E s \in Slots, ride_id \in RideIdInputs, payload \in RaceUpdates,
       k \in HeaderInputs :
        update_ride_read(s, ride_id, payload, k)

WriteRide == \E s \in Slots : update_ride_write(s)

RaceNext ==
    CreateRider \/ CreateDriver \/ RaceRequestRide \/ ReadRide \/ WriteRide

RaceSpec == Init /\ [][RaceNext]_vars

----------------------------------------------------------------------------
(* Drivers and their locations. *)

\* PATCH /drivers/{driver_id}/location: the driver must exist and the header
\* must equal its api_key; then location is set to the body's lat and lng.
\* (updated_at is set too, so the document is always modified; the model
\* keeps no timestamp on drivers.)
update_driver_location(driver_id, loc, x_api_key) ==
    /\ LET code == IF get_doc_by_id(drivers, driver_id) # OK
                   THEN get_doc_by_id(drivers, driver_id)
                   ELSE IF drivers[driver_id].api_key # x_api_key THEN Unauthorized
                   ELSE OK
       IN  /\ resp' = Response("update_driver_location", code, code = OK, "")
           /\ drivers' = IF code = OK
                         THEN [drivers EXCEPT ![driver_id].location =
                                   <<[lat |-> loc.lat, lng |-> loc.lng]>>]
                         ELSE drivers
    /\ prev' = rides
    /\ UNCHANGED <<riders, rides, now, inflight, probe>>

RegisterDriver == \E driver \in LocatedDriverPayloads : create_driver(driver)

UpdateDriverLocation ==
    \E driver_id \in DriverIds \cup {BadId, GhostId}, loc \in LocationUpdates,
       k \in HeaderInputs :
        update_driver_location(driver_id, loc, k)

DriverNext == RegisterDriver \/ UpdateDriverLocation

DriverSpec == Init /\ [][DriverNext]_vars

----------------------------------------------------------------------------
(* The nearby-driver query.  It reads the driver collection and writes     *)
(* nothing, so it is followed one call at a time, from driver collections  *)
(* that registrations and location updates produce.  Coordinates are in    *)
(* whole degrees and the radius is in metres.                              *)

\* The constants of nearby_drivers: metres per degree of latitude and of
\* longitude (110.574 and 111.320 km), and the limit of the cursor.
km_per_deg_lat == 110574
km_per_deg_lng == 111320
NearbyLimit == 50

\* A query that forgets the availability flag.
Matches_AnyAvailability(doc, lat, lng, radius) ==
    /\ doc.location # NoLocation
    /\ lat * km_per_deg_lat - radius <= doc.location[1].lat * km_per_deg_lat
    /\ doc.location[1].lat * km_per_deg_lat <= lat * km_per_deg_lat + radius
    /\ lng * km_per_deg_lng - radius <= doc.location[1].lng * km_per_deg_lng
    /\ doc.location[1].lng * km_per_deg_lng <= lng * km_per_deg_lng + radius

\* The query of nearby_drivers on one document: "location.lat" within
\* [lat - dlat, lat + dlat] and "location.lng" within [lng - dlng, lng + dlng],
\* with dlat = radius / km_per_deg_lat and dlng = radius / km_per_deg_lng (both
\* sides are multiplied by the constant), and is_available true.  $gte and
\* $lte match no document whose location is None.
Matches(doc, lat, lng, radius) ==
    /\ doc.location # NoLocation
    /\ lat * km_per_deg_lat - radius <= doc.location[1].lat * km_per_deg_lat
    /\ doc.location[1].lat * km_per_deg_lat <= lat * km_per_deg_lat + radius
    /\ lng * km_per_deg_lng - radius <= doc.location[1].lng * km_per_deg_lng
    /\ doc.location[1].lng * km_per_deg_lng <= lng * km_per_deg_lng + radius
    /\ doc.is_available

\* The subsets of S with k elements, each built from its greatest element.
RECURSIVE Choose(_, _)
Choose(S, k) ==
    IF k = 0 THEN {{}}
    ELSE UNION {{T \cup {x} : T \in Choose({y \in S : y < x}, k - 1)} : x \in S}

\* find(query).limit(n): every matching document, or some n of them (the
\* store chooses which) when more match.
Limit(S, n) ==
    IF Cardinality(S) <= n THEN {S}
    ELSE {S \ D : D \in Choose(S, Cardinality(S) - n)}

\* GET /drivers/nearby.  `probe` keeps the arguments and the identifiers of
\* the documents answered.
nearby_drivers(lat, lng, radius_km) ==
    /\ \E docs \in Limit({d \in DOMAIN drivers :
                              Matches(drivers[d], lat, lng, radius_km)}, NearbyLimit) :
           probe' = [fn |-> "nearby_drivers", lat |-> lat, lng |-> lng,
                     radius_km |-> radius_km, docs |-> docs]
    /\ UNCHANGED <<riders, drivers, rides, now, resp, prev, inflight>>

\* A driver document: registered with the key k1, at a place or nowhere.
DriverDoc(location, is_available) ==
    [api_key |-> "k1", location |-> location, is_available |-> is_available]

\* The driver collections queried: n available drivers at (12, 77), followed
\* by any of: an unavailable driver at the same place, an available one a
\* degree of latitude north, one a degree of longitude east, and one that
\* never reported a location.  Identifiers are the order of registration.
FleetSizes == {0, 1} \cup ((NearbyLimit - 1)..(NearbyLimit + MaxSurplus))
Others ==
    {<<DriverDoc(<<[lat |-> 12, lng |-> 77]>>, FALSE)>>,
     <<DriverDoc(<<[lat |-> 13, lng |-> 77]>>, TRUE)>>,
     <<DriverDoc(<<[lat |-> 12, lng |-> 78]>>, TRUE)>>,
     <<DriverDoc(NoLocation, TRUE)>>}
RECURSIVE Concat(_)
Concat(ss) ==
    IF ss = {} THEN << >>
    ELSE LET one == CHOOSE x \in ss : TRUE IN one \o Concat(ss \ {one})
Fleets ==
    {[i \in 1..n |-> DriverDoc(<<[lat |-> 12, lng |-> 77]>>, TRUE)] \o Concat(extra) :
        n \in FleetSizes, extra \in SUBSET Others}

\* Queries around (12, 77): 5 km (the default), the length of one degree of
\* latitude, and a negative radius.
RadiusInputs == {5000, km_per_deg_lat, 0 - 1000}

NearbyInit ==
    /\ riders = Empty
    /\ drivers \in Fleets
    /\ rides = Empty
    /\ now = 0
    /\ resp = Response("none", OK, FALSE, "")
    /\ prev = Empty
    /\ inflight = NoRequests
    /\ probe = NoProbe

NearbyDrivers ==
    /\ probe = NoProbe
    /\ \E radius_km \in RadiusInputs : nearby_drivers(12, 77, radius_km)

NearbySpec == NearbyInit /\ [][NearbyDrivers]_vars

----------------------------------------------------------------------------
(* Pricing.  pricing_estimate reads and writes no stored state, so its     *)
(* calls are followed one at a time from the start state.                  *)

\* POST /pricing/estimate: estimate_fare on the body; an absent hour is the
\* hour of the clock.  `probe` keeps the arguments and the answer.
pricing_estimate(payload, utc_hour) ==
    /\ LET h == IF payload.hour # NoNumber THEN payload.hour[1] ELSE utc_hour
           est == estimate_fare(payload.distance_km, payload.duration_min, h)
       IN  probe' = [fn |-> "estimate_fare",
                     distance_km |-> payload.distance_km,
                     duration_min |-> payload.duration_min,
                     h |-> h, fare |-> est[1], surge_multiplier |-> est[2]]
    /\ UNCHANGED <<riders, drivers, rides, now, resp, prev, inflight>>

PricingEstimate ==
    /\ probe = NoProbe
    /\ \E payload \in FareQueries, utc_hour \in Hours :
           pricing_estimate(payload, utc_hour)

FareSpec == Init /\ [][PricingEstimate]_vars

----------------------------------------------------------------------------
(* Properties of the ride lifecycle.  A property about "every update_ride  *)
(* call" is stated over the outcome of every call that can be made in a    *)
(* reachable state; a property about what a request did is stated over     *)
(* resp, prev and rides.                                                   *)

\* The outcome of PATCH /rides/{r} with body p and header k, made now.
Patch(r, p, k) == UpdateOutcome(r, p, k, now + 1)

\* The stored credential of the rider / of the driver of a ride document.
RiderKey(doc) == riders[doc.rider_id].api_key
DriverKey(doc) == drivers[doc.driver_id].api_key

\* The ride has a driver assigned, and that driver is registered.
HasDriver(doc) == Truthy(doc.driver_id) /\ doc.driver_id \in DOMAIN drivers

\* The status a body asks for: the one it names, "assigned" by default on an
\* assignment, none otherwise.
AskedStatus(p) ==
    IF p.status # NONE THEN p.status
    ELSE IF Truthy(p.driver_id) THEN "assigned"
    ELSE NONE

Terminal == {"completed", "cancelled"}

LegalSteps ==
    {<<"requested", "assigned">>, <<"requested", "cancelled">>,
     <<"assigned", "ongoing">>, <<"assigned", "cancelled">>,
     <<"ongoing", "completed">>}

\* C1: once a ride's driver_id holds a non-empty value, no request changes
\* or clears it.
C1_DriverIdSetOnce ==
    \A r \in DOMAIN prev :
        Truthy(prev[r].driver_id) => rides[r].driver_id = prev[r].driver_id

\* C2: once a ride's status is completed or cancelled, no request changes
\* that ride's status.
C2_TerminalStatusFinal ==
    \A r \in DOMAIN prev :
        prev[r].status \in Terminal => rides[r].status = prev[r].status

\* C3: every status change of a ride is one of the legal steps
\* requested->assigned, requested->cancelled, assigned->ongoing,
\* assigned->cancelled, ongoing->completed; the status never moves backward.
C3_StatusMonotonic ==
    \A r \in DOMAIN prev :
        rides[r].status # prev[r].status
            => <<prev[r].status, rides[r].status>> \in LegalSteps

\* C4: on a ride with a driver assigned, an update_ride call that changes the
\* status to a value other than cancelled succeeds only when the presented
\* credential is the assigned driver's; with any other credential it is
\* rejected and the ride is unchanged.
C4_ProgressNeedsAssignedDriver ==
    \A r \in DOMAIN rides, p \in RideUpdates, k \in HeaderInputs :
        (/\ HasDriver(rides[r])
         /\ AskedStatus(p) \notin {NONE, "cancelled"}
         /\ k # DriverKey(rides[r]))
            => Patch(r, p, k).code # OK /\ Patch(r, p, k).rides = rides

\* C5: on a ride with a driver assigned, an update_ride call that sets status
\* to cancelled succeeds with the ride's rider's credential or its current
\* driver's credential (taken here for the bodies that name no driver), and
\* every cancellation presented with a third party's credential is rejected
\* and leaves the ride unchanged.
C5_CancelByRiderOrDriverOnly ==
    \A r \in DOMAIN rides, p \in RideUpdates, k \in HeaderInputs :
        (HasDriver(rides[r]) /\ p.status = "cancelled")
            => IF k \in {RiderKey(rides[r]), DriverKey(rides[r])}
               THEN ~Truthy(p.driver_id)
                        => /\ Patch(r, p, k).code = OK
                           /\ Patch(r, p, k).rides[r].status = "cancelled"
               ELSE /\ Patch(r, p, k).code # OK
                    /\ Patch(r, p, k).rides = rides

\* C6: on a ride in requested state, an update naming a registered driver
\* and presenting that driver's credential sets driver_id to that driver and
\* status to the status supplied (assigned when none is), reports
\* updated=true and touches no other ride; with any other credential it
\* reports Unauthorized and leaves every ride unchanged.
C6_Assignment ==
    \A r \in DOMAIN rides, p \in RideUpdates, k \in HeaderInputs :
        (/\ rides[r].status = "requested"
         /\ Truthy(p.driver_id)
         /\ p.driver_id \in DOMAIN drivers)
            => LET out == Patch(r, p, k)
               IN  IF k = drivers[p.driver_id].api_key
                   THEN /\ out.code = OK
                        /\ out.updated
                        /\ out.rides[r].driver_id = p.driver_id
                        /\ out.rides[r].status =
                               (IF p.status # NONE THEN p.status ELSE "assigned")
                        /\ \A x \in DOMAIN rides \ {r} : out.rides[x] = rides[x]
                   ELSE out.code = Unauthorized /\ out.rides = rides

\* A requested ride with no driver has just been assigned one by default.
C6_Witness ==
    /\ resp.op = "update_ride"
    /\ resp.code = OK
    /\ resp.updated
    /\ \E r \in DOMAIN prev :
           /\ prev[r].status = "requested"
           /\ ~Truthy(prev[r].driver_id)
           /\ HasDriver(rides[r])
           /\ rides[r].status = "assigned"

\* C7: request_ride stores a new ride only when the header equals the stored
\* credential of the rider named by rider_id; with another or no credential
\* it answers Unauthorized, with an unknown rider_id NotFound or Invalid id,
\* and in both cases the stored rides are unchanged.
C7_CreationGated ==
    /\ \A ride \in RidePayloads, k \in HeaderInputs, h \in HourInputs :
           LET out == RequestOutcome(ride, k, h, now + 1)
           IN  IF ride.rider_id \in DOMAIN riders
               THEN IF k = riders[ride.rider_id].api_key
                    THEN /\ out.code = OK
                         /\ out.id \notin DOMAIN rides
                         /\ DOMAIN out.rides = DOMAIN rides \cup {out.id}
                         /\ out.rides[out.id].rider_id = ride.rider_id
                         /\ \A x \in DOMAIN rides : out.rides[x] = rides[x]
                    ELSE out.code = Unauthorized /\ out.rides = rides
               ELSE out.code \in {NotFound, InvalidId} /\ out.rides = rides
    /\ resp.op = "request_ride"
           => IF resp.code = OK
              THEN /\ resp.id \notin DOMAIN prev
                   /\ DOMAIN rides = DOMAIN prev \cup {resp.id}
                   /\ \A x \in DOMAIN prev : rides[x] = prev[x]
              ELSE rides = prev

\* A ride has just been stored for a registered rider.
C7_Witness ==
    /\ resp.op = "request_ride"
    /\ resp.code = OK
    /\ resp.id \in DOMAIN rides \ DOMAIN prev
    /\ rides[resp.id].rider_id \in DOMAIN riders

\* C8: the ride stored by an accepted request_ride has status requested,
\* whatever status the payload carried.
C8_CreatedAsRequested ==
    (resp.op = "request_ride" /\ resp.code = OK)
        => rides[resp.id].status = "requested"

\* C9: an update_ride call that ends with Unauthorized, NotFound or Invalid
\* id leaves every field of every ride, updated_at included, as it was.
C9_FailedUpdateChangesNothing ==
    (resp.op = "update_ride" /\ resp.code \in {Unauthorized, NotFound, InvalidId})
        => rides = prev

\* An update of a stored ride has just been refused as Unauthorized.
C9_Witness ==
    /\ resp.op = "update_ride"
    /\ resp.code = Unauthorized
    /\ DOMAIN rides # {}

\* C10: an update_ride call whose body sets neither status nor driver_id
\* answers updated=false for every credential (none included) and every
\* ride id (unknown and malformed ones included), and changes no ride.
C10_NoOpUpdate ==
    /\ \A r \in RideIdInputs, k \in HeaderInputs :
           LET out == Patch(r, [status |-> NONE, driver_id |-> NONE], k)
           IN  out.code = OK /\ ~out.updated /\ out.rides = rides
    /\ (resp.op = "update_ride" /\ resp.code = OK /\ ~resp.updated)
           => rides = prev

\* An update has just answered updated=false while rides are stored.
C10_Witness ==
    /\ resp.op = "update_ride"
    /\ resp.code = OK
    /\ ~resp.updated
    /\ DOMAIN rides # {}

\* C11: update_ride changes no field of a ride other than status, driver_id
\* and updated_at: rider_id, pickup, dropoff, distance_km, duration_min,
\* fare_estimate and surge_multiplier of every ride are what they were before
\* the request (hence, by induction, what creation stored), and no ride is
\* added or removed.  The fare is never recomputed.
C11_UpdateFrame ==
    (resp.op = "update_ride")
        => /\ DOMAIN rides = DOMAIN prev
           /\ \A r \in DOMAIN prev :
                  /\ rides[r].rider_id = prev[r].rider_id
                  /\ rides[r].pickup = prev[r].pickup
                  /\ rides[r].dropoff = prev[r].dropoff
                  /\ rides[r].distance_km = prev[r].distance_km
                  /\ rides[r].duration_min = prev[r].duration_min
                  /\ rides[r].fare_estimate = prev[r].fare_estimate
                  /\ rides[r].surge_multiplier = prev[r].surge_multiplier

\* An update has just changed the driver and the status of a priced ride.
C11_Witness ==
    /\ resp.op = "update_ride" /\ resp.code = OK /\ resp.updated
    /\ \E r \in DOMAIN prev :
           /\ rides[r].driver_id # prev[r].driver_id
           /\ rides[r].status # prev[r].status
           /\ rides[r].fare_estimate # NoNumber

\* C12: the status of every stored ride is one of requested, assigned,
\* ongoing, completed, cancelled, whatever status strings the create and
\* update payloads carried.
C12_StatusInVocabulary ==
    \A r \in DOMAIN rides : rides[r].status \in Statuses

\* C13: with the read and the write of update_ride as separate steps, a
\* request that was authorized at its read has its write applied whatever
\* the ride has become in between: while it waits, its write still matches
\* the ride (the filter is the ride's identity alone).  The state the claim
\* says is reachable, a write applied although its requester is no longer
\* authorized against the ride's driver assignment, is C13_Witness.
C13_WriteMatchesByIdentity ==
    \A s \in Slots :
        (inflight[s].pc = "write") => WriteFilter(inflight[s])

\* A write has been applied for a requester who, at the moment of the write,
\* was not authorized against the ride as it then was, the ride having been
\* given a driver since the requester's read.
C13_Witness ==
    \E s \in Slots :
        /\ inflight[s].pc = "done"
        /\ inflight[s].stale
        /\ ~Truthy(inflight[s].seen)
        /\ HasDriver(rides[inflight[s].ride_id])

\* C14: a retry is idempotent: for every update_ride call that succeeded
\* with a write, the same call (same ride, body and credential) made again
\* at once is authorized again and leaves the ride with the same driver_id
\* and status as the first call did.
C14_RetryIdempotent ==
    \A r \in DOMAIN rides, p \in RideUpdates, k \in HeaderInputs :
        LET out == Patch(r, p, k)
        IN  (out.code = OK /\ out.updated)
                => LET once == out.rides[r]
                       twice == SetFields(once, p, now + 2)
                   IN  /\ AuthCode(once, p, k) = OK
                       /\ twice.driver_id = once.driver_id
                       /\ twice.status = once.status

\* The pricing of the specification: the surge table by hour, in tenths.
RefSurge(h) ==
    IF h \in {7, 8, 9, 17, 18, 19, 20} THEN 15
    ELSE IF h \in {22, 23, 0, 1, 2, 3, 4, 5} THEN 12
    ELSE 10

\* C15: estimate_fare agrees with the reference pricing for every hour in
\* 0..23, every distance (negative ones included) and every duration (absent
\* included): the multiplier is that of the surge table, and the fare is
\* (2.0 + 1.2 * max(distance, 0) + 0.2 * max(duration, 0)) * multiplier
\* rounded to the nearest cent, the duration term being 0 when absent.
C15_FareAgreesWithReference ==
    (probe.fn = "estimate_fare")
        => LET d == IF probe.distance_km > 0 THEN probe.distance_km ELSE 0
               m == IF probe.duration_min = NoNumber THEN 0
                    ELSE IF probe.duration_min[1] > 0 THEN probe.duration_min[1]
                    ELSE 0
               \* the exact price, in thousandths
               exact == (200 + 12 * d + 2 * m) * RefSurge(probe.h)
           IN  /\ probe.surge_multiplier = RefSurge(probe.h)
               /\ 10 * probe.fare - 5 <= exact
               /\ exact <= 10 * probe.fare + 5

\* 10 km and 20 minutes at 8 o'clock have been priced at 27.00.
C15_Witness ==
    /\ probe.fn = "estimate_fare"
    /\ probe.distance_km = 100
    /\ probe.duration_min = <<200>>
    /\ probe.h = 8
    /\ probe.fare = 2700

\* C16: the stored location of every driver is absent or has its latitude
\* in [-90, 90] and its longitude in [-180, 180], after any registrations
\* and any credential-authorized update_driver_location calls, whatever
\* numbers they carry.
C16_LocationInBounds ==
    \A d \in DOMAIN drivers :
        \/ drivers[d].location = NoLocation
        \/ LET at == drivers[d].location[1]
           IN  /\ 0 - 90 <= at.lat /\ at.lat <= 90
               /\ 0 - 180 <= at.lng /\ at.lng <= 180

\* The drivers that qualify for a query: available, with a location, and no
\* further than radius / 110.574 degrees of latitude and radius / 111.320
\* degrees of longitude from the origin, the edges included.
Abs(x) == IF x < 0 THEN 0 - x ELSE x
Qualifying(lat, lng, radius) ==
    {d \in DOMAIN drivers :
        /\ drivers[d].is_available
        /\ drivers[d].location # NoLocation
        /\ radius >= 0
        /\ Abs(drivers[d].location[1].lat - lat) * 110574 <= radius
        /\ Abs(drivers[d].location[1].lng - lng) * 111320 <= radius}

\* C17: a nearby query answers only drivers that qualify (available, located
\* inside the inclusive bounding box), never a driver without a location or
\* outside the box, never more than 50; and when at most 50 drivers qualify
\* it answers every one of them.
C17_NearbyAnswersQualifying ==
    (probe.fn = "nearby_drivers")
        => LET q == Qualifying(probe.lat, probe.lng, probe.radius_km)
           IN  /\ probe.docs \subseteq q
               /\ Cardinality(probe.docs) <= 50
               /\ (Cardinality(q) <= 50) => (probe.docs = q)

\* A query has answered 50 drivers, leaving out one that qualifies, while
\* the collection also holds an unavailable driver, one outside the box and
\* one without a location, and a driver on the edge of the box qualifies.
C17_Witness ==
    /\ probe.fn = "nearby_drivers"
    /\ Cardinality(probe.docs) = 50
    /\ Qualifying(probe.lat, probe.lng, probe.radius_km) \ probe.docs # {}
    /\ \E d \in Qualifying(probe.lat, probe.lng, probe.radius_km) :
           drivers[d].location[1].lat = 13
    /\ \E d \in DOMAIN drivers : ~drivers[d].is_available
    /\ \E d \in DOMAIN drivers : drivers[d].location = NoLocation
    /\ \E d \in DOMAIN drivers :
           drivers[d].location # NoLocation /\ drivers[d].location[1].lng = 78

\* C18: on a ride with no driver, an update_ride call that is no assignment
\* (driver_id absent or empty) and sets a field is authorized by the
\* credential of the ride's rider alone: with it the call succeeds and writes
\* whatever status it asks for; with any other credential, that of every
\* registered driver included, it is Unauthorized and changes nothing.
C18_UnassignedRideIsTheRiders ==
    \A r \in DOMAIN rides, p \in RideUpdates :
        (/\ ~Truthy(rides[r].driver_id)
         /\ ~Truthy(p.driver_id)
         /\ UpdateDict(p) # {})
            => /\ \A k \in HeaderInputs :
                      LET out == Patch(r, p, k)
                      IN  IF k = RiderKey(rides[r])
                          THEN /\ out.code = OK
                               /\ out.rides[r].status =
                                      (IF p.status # NONE THEN p.status
                                       ELSE rides[r].status)
                          ELSE out.code = Unauthorized /\ out.rides = rides
               /\ \A d \in DOMAIN drivers :
                      (drivers[d].api_key # RiderKey(rides[r]))
                          => Patch(r, p, drivers[d].api_key).code = Unauthorized

\* The rider has just moved a ride that has no driver to "ongoing", while a
\* driver with another credential is registered.
C18_Witness ==
    /\ resp.op = "update_ride" /\ resp.code = OK /\ resp.updated
    /\ \E r \in DOMAIN prev :
           /\ ~Truthy(prev[r].driver_id)
           /\ ~Truthy(rides[r].driver_id)
           /\ prev[r].status = "requested"
           /\ rides[r].status = "ongoing"
           /\ \E d \in DOMAIN drivers : drivers[d].api_key # RiderKey(rides[r])

\* C19: a non-empty driver_id of a ride names a registered driver, and was
\* written by a request that presented that driver's own credential: no
\* ride is created with a driver (creation presents the rider's credential
\* only), and every update that gives a ride a new driver presents the new
\* driver's credential.
C19_DriverAttachedByOwnCredential ==
    /\ (resp.op = "request_ride" /\ resp.code = OK)
           => ~Truthy(rides[resp.id].driver_id)
    /\ \A r \in DOMAIN rides :
           Truthy(rides[r].driver_id) => rides[r].driver_id \in DOMAIN drivers
    /\ \A r \in DOMAIN rides, p \in RideUpdates, k \in HeaderInputs :
           LET out == Patch(r, p, k)
           IN  (/\ out.code = OK
                /\ Truthy(out.rides[r].driver_id)
                /\ out.rides[r].driver_id # rides[r].driver_id)
                   => /\ out.rides[r].driver_id \in DOMAIN drivers
                      /\ k = drivers[out.rides[r].driver_id].api_key

\* C20: a ride whose status is assigned, ongoing or completed has a
\* non-empty driver_id.
C20_ProgressImpliesDriver ==
    \A r \in DOMAIN rides :
        (rides[r].status \in {"assigned", "ongoing", "completed"})
            => Truthy(rides[r].driver_id)

====
